---- MODULE Spec2Model ----
(***************************************************************************)
(* "Audio Notatki" (src/app.py): a Streamlit script that records audio,    *)
(* transcribes it, lets the user edit the transcript and stores the note   *)
(* in a Qdrant collection.  Every user interaction re-runs the script top  *)
(* to bottom in the interacting session; sessions share one process, one   *)
(* cached Qdrant client and one vector store.                              *)
(*                                                                         *)
(* A script run is cut at its blocking calls to the vector store and to    *)
(* the model provider: those are the points where another session's run    *)
(* can interleave.                                                         *)
(***************************************************************************)
EXTENDS Naturals, Integers, Sequences, FiniteSets, TLC

\* ------------------------------------------------------------- bounds
NumSessions == 2
NumAudio == 3
MaxNotes == 2
MaxLimit == 2

Sessions == 1..NumSessions
Audio == 1..NumAudio

\* ---------------------------------------------------------- constants
QDRANT_COLLECTION_NAME == "notes"

OPENAI_API_KEY == "OPENAI_API_KEY"
QDRANT_URL == "QDRANT_URL"
QDRANT_API_KEY == "QDRANT_API_KEY"
Keys == {OPENAI_API_KEY, QDRANT_URL, QDRANT_API_KEY}

\* ------------------------------------------------------------- values
\* None, and the three places a credential value can come from.
NoValue == <<>>
SecretValue(key) == <<"st.secrets", key>>
EnvValue(key) == <<"os.environ", key>>
UserValue == <<"text_input">>

\* A text is "" or the transcript of a recording, possibly edited by the user.
Empty == [src |-> 0, ed |-> FALSE]
Text == {Empty} \cup [src : Audio, ed : BOOLEAN]

\* hashlib.md5(bytes).hexdigest(): a digest, never None, and distinct for the
\* distinct recordings of the model.
Md5(bytes) == <<"md5", bytes>>

\* What the transcription model answers for a recording: nothing for silence.
IsSilent(bytes) == bytes = 1
Whisper(bytes) == IF IsSilent(bytes) THEN Empty ELSE [src |-> bytes, ed |-> FALSE]

\* The embedding of a text, reduced to one coordinate.
Embedding(text) == 2 * text.src + (IF text.ed THEN 1 ELSE 0)

NoEvent == "none"
NoSearch == [query |-> Empty, limit |-> 0, offset |-> 0]
NoClient == [built |-> FALSE, url |-> NoValue, api_key |-> NoValue]
None == <<>>

VARIABLES
    active,                 \* the sessions that are open
    recordings,             \* the recordings the users make
    inSecrets,              \* keys present in st.secrets
    inEnviron,              \* keys present in os.environ (after load_dotenv)
    outcomes,               \* how a call to the store or the provider can end:
                            \* TRUE it answers, FALSE it fails
    qdrant_client,          \* the st.cache_resource'd client
    collections,            \* vector store: names of the collections
    store,                  \* vector store: the points of "notes", by id
    nAdds,                  \* history: upserts the store has accepted
    createAccepted,         \* history: create_collection requests accepted
    createRejected,         \* history: create_collection requests refused
    pc,                     \* where each session's script run stands
    event,                  \* the interaction that triggered the run
    shown,                  \* the widgets the latest run has rendered
    messages,               \* the st.info / st.error messages of the run
    exc,                    \* the exception that ended the run, if any
    key_input,              \* widget: the user typed an API key
    recorder,               \* widget: the recording (its mp3 bytes), 0 = none
    edit,                   \* widget: what the user did to the text area
    openai_api_key,         \* st.session_state["openai_api_key"]
    note_audio_bytes_md5,   \* st.session_state["note_audio_bytes_md5"]
    note_audio_bytes,       \* st.session_state["note_audio_bytes"], 0 = None
    note_text,              \* st.session_state["note_text"]
    note_audio_text,        \* st.session_state["note_audio_text"]
    points_count,           \* add_note_to_db: the count it read
    before,                 \* history: the points when add_note_to_db began
    wrote,                  \* history: which accepted upsert was this call's
    result,                 \* list_notes_from_db: the list it returned
    search                  \* list_notes_from_db: the arguments of that call

config == <<active, recordings, inSecrets, inEnviron, outcomes>>
db == <<collections, store, nAdds, createAccepted, createRejected>>
widgets == <<key_input, recorder, edit>>
session == <<openai_api_key, note_audio_bytes_md5, note_audio_bytes, note_text,
             note_audio_text>>
locals == <<points_count, before, wrote, result, search>>
ui == <<shown, messages>>
vars == <<config, qdrant_client, db, pc, event, ui, exc, widgets, session, locals>>

\* ------------------------------------------------------ pure functions

\* get_secret: st.secrets first, then os.environ, else ValueError.
get_secret(key) ==
    IF key \in inSecrets THEN SecretValue(key)
    ELSE IF key \in inEnviron THEN EnvValue(key)
    ELSE <<"ValueError", key>>

\* Variant: os.environ is the process environment alone, whatever st.secrets holds.
environ_ProcessOnly ==
    [key \in Keys |-> IF key \in inEnviron THEN EnvValue(key) ELSE NoValue]

\* os.environ as the script finds it below line 20: the process environment
\* with .env loaded (line 14), overlaid with the root-level entries of
\* st.secrets, which Streamlit exports to os.environ when the secret store is
\* first read (the membership test of line 17).
environ ==
    [key \in Keys |-> IF key \in inSecrets THEN SecretValue(key)
                      ELSE IF key \in inEnviron THEN EnvValue(key)
                      ELSE NoValue]

\* os.getenv(key): the environment's value or None.
getenv(key) == environ[key]

\* get_qdrant_client: built once from os.getenv and cached for the process.
get_qdrant_client ==
    IF qdrant_client.built THEN qdrant_client
    ELSE [built |-> TRUE, url |-> getenv(QDRANT_URL), api_key |-> getenv(QDRANT_API_KEY)]

\* Variant: the provider's exception leaves transcribe_audio.
transcribe_audio_Propagates(audio_bytes, ok) ==
    IF ok THEN [text |-> Whisper(audio_bytes), error |-> {}, raised |-> FALSE]
    ELSE [text |-> Empty, error |-> {}, raised |-> TRUE]

\* transcribe_audio: the transcript, or "" and an error message on any exception.
transcribe_audio(audio_bytes, ok) ==
    IF ok THEN [text |-> Whisper(audio_bytes), error |-> {}, raised |-> FALSE]
    ELSE [text |-> Empty, error |-> {"transcribe_error"}, raised |-> FALSE]

\* PointStruct(id, vector, payload); seq is history: which accepted upsert wrote it.
PointStruct(id, text, by, seq) ==
    [id |-> id, vector |-> Embedding(text), payload |-> text, by |-> by, seq |-> seq]

\* qdrant upsert: insert, or replace the point with that id.
Upsert(points, p) ==
    [i \in (DOMAIN points) \cup {p.id} |-> IF i = p.id THEN p ELSE points[i]]

\* Variant: the id is the count itself.
NewPointId_ZeroBased(count) == count

\* Variant: the id comes from a sequence the store keeps, not from the count read.
NewPointId_Sequence(count) == nAdds + 1

\* The id add_note_to_db gives its point.
NewPointId(count) == count + 1

Min(a, b) == IF a < b THEN a ELSE b
Dist(a, b) == IF a < b THEN b - a ELSE a - b

\* qdrant scroll: up to limit records from point id offset on, in id order.
\* A Record has an id and a payload, and no score.
RECURSIVE TakeIds(_, _)
TakeIds(ids, n) ==
    IF n = 0 \/ ids = {} THEN <<>>
    ELSE LET m == CHOOSE i \in ids : \A j \in ids : i <= j
         IN <<m>> \o TakeIds(ids \ {m}, n - 1)

Scroll(points, limit, offset) ==
    LET ids == TakeIds({i \in DOMAIN points : i >= offset}, limit)
    IN [k \in DOMAIN ids |-> [id |-> ids[k], payload |-> points[ids[k]].payload]]

\* qdrant search: the limit nearest points after skipping offset, each a
\* ScoredPoint with its score.
RECURSIVE Nearest(_, _, _)
Nearest(points, ids, qv) ==
    IF ids = {} THEN <<>>
    ELSE LET m == CHOOSE i \in ids : \A j \in ids :
                    \/ Dist(points[i].vector, qv) < Dist(points[j].vector, qv)
                    \/ Dist(points[i].vector, qv) = Dist(points[j].vector, qv) /\ i <= j
         IN <<m>> \o Nearest(points, ids \ {m}, qv)

Search(points, qv, limit, offset) ==
    LET ranked == Nearest(points, DOMAIN points, qv)
        n == IF Len(ranked) > offset THEN Min(limit, Len(ranked) - offset) ELSE 0
    IN [k \in 1..n |->
          [id |-> ranked[offset + k],
           payload |-> points[ranked[offset + k]].payload,
           score |-> <<0 - Dist(points[ranked[offset + k]].vector, qv)>>]]

\* note.score of line 139: an attribute the note has, or AttributeError.
HasScore(note) == "score" \in DOMAIN note

\* list_notes_from_db: its return value, or the exception it raises.
list_notes_from_db(query, offset, limit, embed_ok) ==
    IF query = Empty
    THEN LET notes == Scroll(store, limit, offset)
         IN IF \E k \in DOMAIN notes : ~HasScore(notes[k])
            THEN [raised |-> "AttributeError", value |-> <<>>]
            ELSE [raised |-> "",
                  value |-> [k \in DOMAIN notes |->
                               [text |-> notes[k].payload, score |-> notes[k].score]]]
    ELSE IF ~embed_ok THEN [raised |-> "EmbeddingError", value |-> <<>>]
    ELSE LET notes == Search(store, Embedding(query), limit, offset)
         IN [raised |-> "",
             value |-> [k \in DOMAIN notes |->
                          [text |-> notes[k].payload, score |-> notes[k].score]]]

\* st.text_area(value=default): the default, or what the user made of it.
text_area(default, userEdit) ==
    CASE userEdit = "edited" -> [src |-> default.src, ed |-> TRUE]
      [] userEdit = "cleared" -> Empty
      [] OTHER -> default

\* -------------------------------------------------------------- Init
InitSessions ==
    /\ qdrant_client = NoClient
    /\ collections = {}
    /\ store = <<>>
    /\ nAdds = 0
    /\ createAccepted = 0
    /\ createRejected = 0
    /\ pc = [s \in Sessions |-> IF s \in active THEN "start" ELSE "closed"]
    /\ event = [s \in Sessions |-> NoEvent]
    /\ shown = [s \in Sessions |-> {}]
    /\ messages = [s \in Sessions |-> {}]
    /\ exc = [s \in Sessions |-> ""]
    /\ key_input = [s \in Sessions |-> FALSE]
    /\ recorder = [s \in Sessions |-> 0]
    /\ edit = [s \in Sessions |-> "none"]
    /\ openai_api_key = [s \in Sessions |-> NoValue]
    /\ note_audio_bytes_md5 = [s \in Sessions |-> None]
    /\ note_audio_bytes = [s \in Sessions |-> 0]
    /\ note_text = [s \in Sessions |-> Empty]
    /\ note_audio_text = [s \in Sessions |-> Empty]
    /\ points_count = [s \in Sessions |-> 0]
    /\ before = [s \in Sessions |-> <<>>]
    /\ wrote = [s \in Sessions |-> 0]
    /\ result = [s \in Sessions |-> <<>>]
    /\ search = [s \in Sessions |-> NoSearch]

\* The first recording with words in it.
FirstSpeech == {a \in Audio : ~IsSilent(a) /\ \A b \in Audio : IsSilent(b) \/ a <= b}

\* One session; the provider key is in the environment or has to be typed;
\* the store and the provider may fail at any call.
Init ==
    /\ active = {1}
    /\ recordings = Audio
    /\ inSecrets = {}
    /\ inEnviron \in {Keys, Keys \ {OPENAI_API_KEY}}
    /\ outcomes = BOOLEAN
    /\ InitSessions

\* One session under every configuration of the secret store and the environment.
InitSecrets ==
    /\ active = {1}
    /\ recordings = FirstSpeech
    /\ inSecrets \in SUBSET Keys
    /\ inEnviron \in SUBSET Keys
    /\ outcomes = BOOLEAN
    /\ InitSessions

\* Every session open at once against a store and a provider that answer.
InitConcurrent ==
    /\ active = Sessions
    /\ recordings = FirstSpeech
    /\ inSecrets = {}
    /\ inEnviron = Keys \ {OPENAI_API_KEY}
    /\ outcomes = {TRUE}
    /\ InitSessions

\* ---------------------------------------------------- the script run

\* Lines 146-169: the provider key, then the session's defaults (which the
\* session holds from Init on: nothing reads them before this point).
Start(s) ==
    /\ pc[s] = "start"
    /\ shown' = [shown EXCEPT ![s] =
                   IF openai_api_key[s] = NoValue /\ getenv(OPENAI_API_KEY) = NoValue
                   THEN {"key_input"} ELSE {}]
    /\ IF openai_api_key[s] # NoValue
       THEN /\ pc' = [pc EXCEPT ![s] = "assure"]
            /\ UNCHANGED <<openai_api_key, event>>
       ELSE IF getenv(OPENAI_API_KEY) # NoValue
       THEN /\ openai_api_key' = [openai_api_key EXCEPT ![s] = getenv(OPENAI_API_KEY)]
            /\ pc' = [pc EXCEPT ![s] = "assure"]
            /\ UNCHANGED event
       ELSE IF key_input[s]
       THEN \* st.rerun(): the script starts over, the key now in the session
            /\ openai_api_key' = [openai_api_key EXCEPT ![s] = UserValue]
            /\ pc' = [pc EXCEPT ![s] = "start"]
            /\ event' = [event EXCEPT ![s] = NoEvent]
       ELSE \* st.stop() of line 156
            /\ pc' = [pc EXCEPT ![s] = "stopped"]
            /\ UNCHANGED <<openai_api_key, event>>
    /\ UNCHANGED <<config, qdrant_client, db, messages, exc, widgets,
                   note_audio_bytes_md5, note_audio_bytes, note_text, note_audio_text,
                   locals>>

\* test_qdrant_connection: True, or False and an error message.
test_qdrant_connection(healthy) ==
    IF healthy THEN [value |-> TRUE, error |-> {}]
    ELSE [value |-> FALSE, error |-> {"qdrant_unreachable"}]

\* Variant: the failed connection test is ignored.
AfterConnectionTest_Continue(connected) == "exists"

\* Where assure_db_collection_exists goes after the connection test: on to
\* collection_exists, or back to the script (line 81).
AfterConnectionTest(connected) == IF connected THEN "exists" ELSE "add_tab"

\* assure_db_collection_exists, lines 77-81: the client and the connection test.
AssureHealth(s, healthy) ==
    /\ pc[s] = "assure"
    /\ qdrant_client' = get_qdrant_client
    /\ LET t == test_qdrant_connection(healthy)
       IN /\ messages' = [messages EXCEPT ![s] = @ \cup t.error]
          /\ pc' = [pc EXCEPT ![s] = AfterConnectionTest(t.value)]
    /\ UNCHANGED <<config, db, event, shown, exc, widgets, session, locals>>

\* Variant: the collection is created whatever collection_exists answered.
AfterExists_AlwaysCreate(exists) == "create"

\* Where the run goes once collection_exists has answered.
AfterExists(exists) == IF exists THEN "add_tab" ELSE "create"

\* Lines 84-87, 95-99: collection_exists after the sleep.
AssureExists(s, reachable) ==
    /\ pc[s] = "exists"
    /\ IF ~reachable
       THEN /\ messages' = [messages EXCEPT ![s] = @ \cup {"collection_error"}]
            /\ pc' = [pc EXCEPT ![s] = "stopped"]
       ELSE LET exists == QDRANT_COLLECTION_NAME \in collections
            IN /\ messages' = [messages EXCEPT ![s] = @ \cup
                                 (IF exists THEN {"info_exists"} ELSE {"info_create"})]
               /\ pc' = [pc EXCEPT ![s] = AfterExists(exists)]
    /\ UNCHANGED <<config, qdrant_client, db, event, shown, exc, widgets, session, locals>>

\* Lines 88-94, 97-99: create_collection; the store refuses a second "notes".
AssureCreate(s, reachable) ==
    /\ pc[s] = "create"
    /\ IF reachable /\ QDRANT_COLLECTION_NAME \notin collections
       THEN /\ collections' = collections \cup {QDRANT_COLLECTION_NAME}
            /\ store' = <<>>
            /\ createAccepted' = createAccepted + 1
            /\ pc' = [pc EXCEPT ![s] = "add_tab"]
            /\ UNCHANGED <<createRejected, messages>>
       ELSE /\ createRejected' = createRejected + (IF reachable THEN 1 ELSE 0)
            /\ messages' = [messages EXCEPT ![s] = @ \cup {"collection_error"}]
            /\ pc' = [pc EXCEPT ![s] = "stopped"]
            /\ UNCHANGED <<collections, store, createAccepted>>
    /\ UNCHANGED <<config, qdrant_client, nAdds, event, shown, exc, widgets, session, locals>>

\* Variant: a new hash clears the transcript and leaves the edited text.
AudioState_KeepsText(stored_md5, current_md5, audio_text, text) ==
    IF stored_md5 # current_md5
    THEN [md5 |-> current_md5, note_audio_text |-> Empty, note_text |-> text]
    ELSE [md5 |-> stored_md5, note_audio_text |-> audio_text, note_text |-> text]

\* Lines 186-189: what the session holds once the recording's hash is compared.
AudioState(stored_md5, current_md5, audio_text, text) ==
    IF stored_md5 # current_md5
    THEN [md5 |-> current_md5, note_audio_text |-> Empty, note_text |-> Empty]
    ELSE [md5 |-> stored_md5, note_audio_text |-> audio_text, note_text |-> text]

\* Lines 196-199: the text area, then the save button.  The widget keeps the
\* user's edit only while it is rendered with the same default.
TextPart(s, newAudioText, oldAudioText, oldText) ==
    LET kept == IF newAudioText = oldAudioText THEN edit[s] ELSE "none"
        text == IF newAudioText # Empty THEN text_area(newAudioText, kept) ELSE oldText
        save == text # Empty /\ event[s] = "save"
    IN /\ note_text' = [note_text EXCEPT ![s] = text]
       /\ edit' = [edit EXCEPT ![s] = IF newAudioText # Empty THEN kept ELSE "none"]
       /\ shown' = [shown EXCEPT ![s] = @ \cup {"recorder", "transcribe_btn"}
                      \cup (IF newAudioText # Empty THEN {"text_area"} ELSE {})
                      \cup (IF text # Empty THEN {"save_btn"} ELSE {})]
       /\ pc' = [pc EXCEPT ![s] = IF save THEN "count" ELSE "search_tab"]

\* Lines 176-199 up to the first blocking call.
AddTab(s) ==
    /\ pc[s] = "add_tab"
    /\ IF recorder[s] = 0
       THEN /\ shown' = [shown EXCEPT ![s] = @ \cup {"recorder"}]
            /\ edit' = [edit EXCEPT ![s] = "none"]
            /\ pc' = [pc EXCEPT ![s] = "search_tab"]
            /\ UNCHANGED session
       ELSE LET a == AudioState(note_audio_bytes_md5[s], Md5(recorder[s]),
                                note_audio_text[s], note_text[s])
            IN /\ note_audio_bytes' = [note_audio_bytes EXCEPT ![s] = recorder[s]]
               /\ note_audio_bytes_md5' = [note_audio_bytes_md5 EXCEPT ![s] = a.md5]
               /\ note_audio_text' = [note_audio_text EXCEPT ![s] = a.note_audio_text]
               /\ UNCHANGED openai_api_key
               /\ IF event[s] = "transcribe"
                  THEN /\ note_text' = [note_text EXCEPT ![s] = a.note_text]
                       /\ shown' = [shown EXCEPT ![s] = @ \cup {"recorder", "transcribe_btn"}]
                       /\ pc' = [pc EXCEPT ![s] = "transcribe"]
                       /\ UNCHANGED edit
                  ELSE TextPart(s, a.note_audio_text, note_audio_text[s], a.note_text)
    /\ UNCHANGED <<config, qdrant_client, db, event, messages, exc, key_input, recorder,
                   locals>>

\* Lines 193-199: the transcription returns, the rest of the tab follows.
Transcribe(s, ok) ==
    /\ pc[s] = "transcribe"
    /\ LET t == transcribe_audio(note_audio_bytes[s], ok)
       IN IF t.raised
          THEN /\ exc' = [exc EXCEPT ![s] = "TranscriptionError"]
               /\ pc' = [pc EXCEPT ![s] = "raised"]
               /\ UNCHANGED <<note_audio_text, note_text, edit, shown, messages>>
          ELSE /\ note_audio_text' = [note_audio_text EXCEPT ![s] = t.text]
               /\ messages' = [messages EXCEPT ![s] = @ \cup t.error]
               /\ TextPart(s, t.text, note_audio_text[s], note_text[s])
               /\ UNCHANGED exc
    /\ UNCHANGED <<config, qdrant_client, db, event, key_input, recorder,
                   openai_api_key, note_audio_bytes_md5, note_audio_bytes, locals>>

\* add_note_to_db, lines 113-117: the exact count of the collection's points.
StoreCount(s) ==
    /\ pc[s] = "count"
    /\ before' = [before EXCEPT ![s] = store]
    /\ IF QDRANT_COLLECTION_NAME \in collections
       THEN /\ points_count' = [points_count EXCEPT ![s] = Cardinality(DOMAIN store)]
            /\ pc' = [pc EXCEPT ![s] = "embed"]
            /\ UNCHANGED exc
       ELSE /\ exc' = [exc EXCEPT ![s] = "StoreError"]
            /\ pc' = [pc EXCEPT ![s] = "raised"]
            /\ UNCHANGED points_count
    /\ UNCHANGED <<config, qdrant_client, db, event, ui, widgets, session, wrote, result,
                   search>>

\* Variant: the embedding's exception is swallowed and the upsert goes ahead.
AfterEmbedding_Swallowed(ok) == "upsert"

\* Where add_note_to_db stands once get_embeddings has returned or raised:
\* nothing catches its exception.
AfterEmbedding(ok) == IF ok THEN "upsert" ELSE "raised"

\* get_embeddings, called while the PointStruct of line 120 is built.
Embed(s, ok) ==
    /\ pc[s] = "embed"
    /\ pc' = [pc EXCEPT ![s] = AfterEmbedding(ok)]
    /\ exc' = [exc EXCEPT ![s] = IF ok THEN "" ELSE "EmbeddingError"]
    /\ UNCHANGED <<config, qdrant_client, db, event, ui, widgets, session, locals>>

\* Lines 118-125: the upsert under the id computed from the count read earlier.
UpsertNote(s, ok) ==
    /\ pc[s] = "upsert"
    /\ IF ok
       THEN /\ store' = Upsert(store, PointStruct(NewPointId(points_count[s]),
                                                  note_text[s], s, nAdds + 1))
            /\ nAdds' = nAdds + 1
            /\ wrote' = [wrote EXCEPT ![s] = nAdds + 1]
            /\ pc' = [pc EXCEPT ![s] = "saved"]
            /\ UNCHANGED exc
       ELSE /\ exc' = [exc EXCEPT ![s] = "StoreError"]
            /\ pc' = [pc EXCEPT ![s] = "raised"]
            /\ UNCHANGED <<store, nAdds, wrote>>
    /\ UNCHANGED <<config, qdrant_client, collections, createAccepted, createRejected,
                   event, ui, widgets, session, points_count, before, result, search>>

\* The save handler after add_note_to_db returned: the note text stays.
AfterSave(s) ==
    /\ pc[s] = "saved"
    /\ pc' = [pc EXCEPT ![s] = "search_tab"]
    /\ points_count' = [points_count EXCEPT ![s] = 0]
    /\ before' = [before EXCEPT ![s] = <<>>]
    /\ wrote' = [wrote EXCEPT ![s] = 0]
    /\ UNCHANGED <<config, qdrant_client, db, event, ui, exc, widgets, session, result,
                   search>>

\* The search tab: a query (or none) handed to list_notes_from_db.
SearchTab(s, query, limit, offset, embed_ok) ==
    /\ pc[s] = "search_tab"
    /\ shown' = [shown EXCEPT ![s] = @ \cup {"search"}]
    /\ IF event[s] = "search"
       THEN LET r == list_notes_from_db(query, offset, limit, embed_ok)
            IN /\ search' = [search EXCEPT ![s] = [query |-> query, limit |-> limit,
                                                    offset |-> offset]]
               /\ IF QDRANT_COLLECTION_NAME \notin collections
                  THEN /\ exc' = [exc EXCEPT ![s] = "StoreError"]
                       /\ pc' = [pc EXCEPT ![s] = "raised"]
                       /\ UNCHANGED result
                  ELSE IF r.raised # ""
                  THEN /\ exc' = [exc EXCEPT ![s] = r.raised]
                       /\ pc' = [pc EXCEPT ![s] = "raised"]
                       /\ UNCHANGED result
                  ELSE /\ result' = [result EXCEPT ![s] = r.value]
                       /\ pc' = [pc EXCEPT ![s] = "results"]
                       /\ UNCHANGED exc
       ELSE /\ pc' = [pc EXCEPT ![s] = "done"]
            /\ UNCHANGED <<exc, result, search>>
    /\ UNCHANGED <<config, qdrant_client, db, event, messages, widgets, session,
                   points_count, before, wrote>>

\* The run is over (the script's end, st.stop or an uncaught exception): the
\* session waits for the user.  A text area the run did not render loses the
\* user's edit.
Finish(s) ==
    /\ pc[s] \in {"done", "results", "raised", "stopped"}
    /\ pc' = [pc EXCEPT ![s] = "idle"]
    /\ event' = [event EXCEPT ![s] = NoEvent]
    /\ exc' = [exc EXCEPT ![s] = ""]
    /\ messages' = [messages EXCEPT ![s] = {}]
    /\ edit' = [edit EXCEPT ![s] = IF "text_area" \in shown[s] THEN @ ELSE "none"]
    /\ result' = [result EXCEPT ![s] = <<>>]
    /\ search' = [search EXCEPT ![s] = NoSearch]
    /\ points_count' = [points_count EXCEPT ![s] = 0]
    /\ before' = [before EXCEPT ![s] = <<>>]
    /\ wrote' = [wrote EXCEPT ![s] = 0]
    /\ UNCHANGED <<config, qdrant_client, db, shown, key_input, recorder, session>>

\* ------------------------------------------------ the user's actions
\* Each acts on a widget the latest run rendered and triggers a new run.

Rerun(s, e) ==
    /\ pc[s] = "idle"
    /\ pc' = [pc EXCEPT ![s] = "start"]
    /\ event' = [event EXCEPT ![s] = e]

\* The user reruns the script (the page's own "Rerun").
UserRerun(s) ==
    /\ Rerun(s, NoEvent)
    /\ UNCHANGED <<config, qdrant_client, db, ui, exc, widgets, session, locals>>

UserTypeKey(s) ==
    /\ "key_input" \in shown[s]
    /\ ~key_input[s]
    /\ Rerun(s, NoEvent)
    /\ key_input' = [key_input EXCEPT ![s] = TRUE]
    /\ UNCHANGED <<config, qdrant_client, db, ui, exc, recorder, edit, session, locals>>

UserRecord(s, a) ==
    /\ "recorder" \in shown[s]
    /\ Rerun(s, NoEvent)
    /\ recorder' = [recorder EXCEPT ![s] = a]
    /\ UNCHANGED <<config, qdrant_client, db, ui, exc, key_input, edit, session, locals>>

UserTranscribe(s) ==
    /\ "transcribe_btn" \in shown[s]
    /\ Rerun(s, "transcribe")
    /\ UNCHANGED <<config, qdrant_client, db, ui, exc, widgets, session, locals>>

UserEdit(s, e) ==
    /\ "text_area" \in shown[s]
    /\ e # edit[s]
    /\ Rerun(s, NoEvent)
    /\ edit' = [edit EXCEPT ![s] = e]
    /\ UNCHANGED <<config, qdrant_client, db, ui, exc, key_input, recorder, session, locals>>

\* Saves in flight, each of which may still add one point.
Saving == {t \in Sessions : event[t] = "save" /\ pc[t] # "saved"}

UserSave(s) ==
    /\ "save_btn" \in shown[s]
    /\ Cardinality(DOMAIN store) + Cardinality(Saving) < MaxNotes
    /\ Rerun(s, "save")
    /\ UNCHANGED <<config, qdrant_client, db, ui, exc, widgets, session, locals>>

UserSearch(s) ==
    /\ "search" \in shown[s]
    /\ Rerun(s, "search")
    /\ UNCHANGED <<config, qdrant_client, db, ui, exc, widgets, session, locals>>

\* The queries of the model: none, or the words of a recording.
Queries == {Empty} \cup {[src |-> a, ed |-> FALSE] : a \in {a \in recordings : ~IsSilent(a)}}

Next ==
    \/ \E s \in active : Start(s)
    \/ \E s \in active, healthy \in outcomes : AssureHealth(s, healthy)
    \/ \E s \in active, reachable \in outcomes : AssureExists(s, reachable)
    \/ \E s \in active, reachable \in outcomes : AssureCreate(s, reachable)
    \/ \E s \in active : AddTab(s)
    \/ \E s \in active, ok \in outcomes : Transcribe(s, ok)
    \/ \E s \in active : StoreCount(s)
    \/ \E s \in active, ok \in outcomes : Embed(s, ok)
    \/ \E s \in active, ok \in outcomes : UpsertNote(s, ok)
    \/ \E s \in active : AfterSave(s)
    \/ \E s \in active, q \in Queries, limit \in 1..MaxLimit, ok \in outcomes :
          SearchTab(s, q, limit, 0, ok)
    \/ \E s \in active : Finish(s)
    \/ \E s \in active : UserRerun(s)
    \/ \E s \in active : UserTypeKey(s)
    \/ \E s \in active, a \in recordings : UserRecord(s, a)
    \/ \E s \in active : UserTranscribe(s)
    \/ \E s \in active, e \in {"edited", "cleared"} : UserEdit(s, e)
    \/ \E s \in active : UserSave(s)
    \/ \E s \in active : UserSearch(s)

Spec == Init /\ [][Next]_vars
SpecSecrets == InitSecrets /\ [][Next]_vars
SpecConcurrent == InitConcurrent /\ [][Next]_vars
\* ------------------------------------------------------------ claims

InAdd == {"count", "embed", "upsert", "saved"}
Workflow == {"add_tab", "transcribe", "count", "embed", "upsert", "saved",
             "search_tab", "results", "done"}

\* C1: with one writer and a store that starts empty, the k-th accepted upsert
\* is stored under id k (the count read + 1): after n of them the store holds
\* the points 1..n, point k written by the k-th call and never since, and the
\* call that just returned finds its own text under its id.
C1_SequentialIds ==
    /\ DOMAIN store = 1..nAdds
    /\ \A k \in DOMAIN store : store[k].id = k /\ store[k].seq = k
    /\ \A s \in active : pc[s] = "saved" =>
          /\ NewPointId(points_count[s]) = nAdds
          /\ wrote[s] = nAdds
          /\ store[nAdds].payload = note_text[s]

C1_Witness ==
    \E s \in active :
        /\ pc[s] = "saved" /\ nAdds = 2
        /\ store[1].payload # store[2].payload
        /\ store[2].payload = note_text[s]

\* C2: when two sessions' add_note_to_db calls read the same count c, both
\* write id c + 1 without error and the later write replaces the earlier one:
\* the earlier call's point is gone, the store holds fewer points than it
\* accepted upserts, and what the later call wrote is its own text.
C2_LostUpdate ==
    \A s1, s2 \in active :
        (/\ s1 # s2 /\ pc[s1] = "saved" /\ pc[s2] = "saved"
         /\ points_count[s1] = points_count[s2] /\ wrote[s1] < wrote[s2])
        => LET id == NewPointId(points_count[s1])
           IN /\ exc[s1] = "" /\ exc[s2] = ""
              /\ id \in DOMAIN store
              /\ store[id].seq >= wrote[s2]
              /\ store[id].seq = wrote[s2] =>
                    store[id].by = s2 /\ store[id].payload = note_text[s2]
              /\ Cardinality(DOMAIN store) < nAdds

C2_Witness ==
    \E s1, s2 \in active :
        /\ s1 # s2 /\ pc[s1] = "saved" /\ pc[s2] = "saved"
        /\ points_count[s1] = points_count[s2] /\ wrote[s1] < wrote[s2]
        /\ note_text[s1] # note_text[s2]
        /\ Cardinality(DOMAIN store) = points_count[s1] + 1
        /\ store[points_count[s1] + 1].payload = note_text[s2]
        /\ \A i \in DOMAIN store : store[i].payload # note_text[s1]

\* C3: the session's transcript and edited text always come from the
\* recording whose hash the session stores, and a text being saved comes from
\* the recording the recorder holds ...
C3_TextsFollowAudio ==
    \A s \in active :
        /\ note_audio_bytes[s] # 0 => note_audio_bytes_md5[s] = Md5(note_audio_bytes[s])
        /\ note_audio_text[s] # Empty =>
              Md5(note_audio_text[s].src) = note_audio_bytes_md5[s]
        /\ note_text[s] # Empty => Md5(note_text[s].src) = note_audio_bytes_md5[s]
        /\ pc[s] \in InAdd => Md5(note_text[s].src) = Md5(recorder[s])

\* ... and a run that finds the recording's hash different from the stored one
\* leaves both texts empty and stores the new hash.
C3_ResetTogether ==
    \A s \in active :
        (/\ pc[s] = "add_tab" /\ pc'[s] # "add_tab"
         /\ recorder[s] # 0 /\ Md5(recorder[s]) # note_audio_bytes_md5[s])
        => /\ note_audio_text'[s] = Empty
           /\ note_text'[s] = Empty
           /\ note_audio_bytes_md5'[s] = Md5(recorder[s])

\* C3: in every run in which the hash of the recording differs from the stored
\* hash, transcript and edited text are emptied together and the new hash is
\* stored, so no save stores a text that came from an earlier recording.
C3_NoStaleTranscript == [](C3_TextsFollowAudio) /\ [][C3_ResetTogether]_vars

C3_Witness ==
    \E s \in active :
        /\ pc[s] = "search_tab"
        /\ nAdds >= 1 /\ store[1].by = s
        /\ note_audio_bytes[s] # 0 /\ note_audio_bytes[s] # store[1].payload.src
        /\ note_audio_bytes_md5[s] = Md5(recorder[s])
        /\ note_audio_text[s] = Empty /\ note_text[s] = Empty

\* C4: with one session, assure_db_collection_exists run after run creates
\* the collection once: the store accepts at most one create_collection, is
\* never asked to create a collection it has, holds at most one collection,
\* and a run that finds the collection goes on without an error.
C4_EnsureIdempotent ==
    /\ createAccepted <= 1
    /\ createRejected = 0
    /\ Cardinality(collections) <= 1
    /\ createAccepted = 1 <=> QDRANT_COLLECTION_NAME \in collections
    /\ \A s \in active : "info_exists" \in messages[s] =>
          /\ pc[s] \notin {"create", "stopped"}
          /\ "collection_error" \notin messages[s]

C4_Witness ==
    \E s \in active :
        /\ pc[s] = "add_tab"
        /\ "info_exists" \in messages[s]
        /\ createAccepted = 1

\* C5 as stated: when the health check fails, the application halts: no
\* existence check or creation, and neither workflow is reached.
C5_HaltsWhenUnreachable ==
    \A s \in active : "qdrant_unreachable" \in messages[s] =>
        pc[s] \notin {"exists", "create"} \cup Workflow

\* C5 as amended: when the health check fails, assure_db_collection_exists
\* reports the error and returns: no existence check, no creation and no
\* st.stop() in that run, which goes on to the tabs.
C5_ReturnsWhenUnreachable ==
    \A s \in active : "qdrant_unreachable" \in messages[s] =>
        /\ pc[s] \notin {"exists", "create", "stopped"}
        /\ messages[s] \cap {"info_exists", "info_create", "collection_error"} = {}
        /\ pc[s] \in Workflow \cup {"raised"}

C5_Witness ==
    \E s \in active :
        /\ "qdrant_unreachable" \in messages[s]
        /\ pc[s] = "search_tab"
        /\ "transcribe_btn" \in shown[s]

\* C6: a credential in neither the secret store nor the environment halts the
\* start before any call to the vector store and before the tabs.
C6_MissingSecretHalts ==
    (Keys \ (inSecrets \cup inEnviron) # {}) =>
        /\ qdrant_client = NoClient
        /\ \A s \in active : pc[s] \notin {"exists", "create"} \cup Workflow

C8_TranscribeNeverRaises ==
    \A s \in active :
        /\ exc[s] # "TranscriptionError"
        /\ pc[s] = "transcribe" => exc[s] = ""
        /\ "transcribe_error" \in messages[s] =>
              note_audio_text[s] = Empty /\ pc[s] \notin {"raised", "stopped"}
        /\ (note_audio_bytes[s] # 0 /\ IsSilent(note_audio_bytes[s])) =>
              note_audio_text[s] = Empty

C8_Witness ==
    \E s \in active :
        /\ "transcribe_error" \in messages[s]
        /\ ~IsSilent(note_audio_bytes[s])
        /\ note_audio_text[s] = Empty
        /\ pc[s] = "search_tab"

\* C9: list_notes_from_db without a query returns min(limit, n) entries from
\* offset 0, each the text of a stored note with score None.
C9_ListingWithoutQuery ==
    \A s \in active :
        (/\ event[s] = "search" /\ pc[s] \in {"results", "raised"}
         /\ search[s].query = Empty /\ search[s].offset = 0
         /\ QDRANT_COLLECTION_NAME \in collections)
        => /\ pc[s] = "results"
           /\ Len(result[s]) = Min(search[s].limit, Cardinality(DOMAIN store))
           /\ \A k \in DOMAIN result[s] :
                 result[s][k] = [text |-> store[k].payload, score |-> None]

\* C10: when get_embeddings fails inside add_note_to_db, the exception ends the
\* call: the count has been read, no upsert follows, and the points are those
\* the call found.
C10_EmbeddingFailure ==
    \A s \in active :
        /\ (pc[s] = "raised" /\ exc[s] = "EmbeddingError" /\ event[s] = "save") =>
              /\ store = before[s]
              /\ points_count[s] = Cardinality(DOMAIN before[s])
              /\ wrote[s] = 0
        /\ pc[s] \in {"upsert", "saved"} => exc[s] = ""

C10_Witness ==
    \E s \in active :
        /\ pc[s] = "raised" /\ exc[s] = "EmbeddingError" /\ event[s] = "save"
        /\ Cardinality(DOMAIN store) >= 1
        /\ store = before[s]
        /\ points_count[s] = Cardinality(DOMAIN store)
====
